---- MODULE Spec2Model ----
(***************************************************************************)
(* DataTable (components/DataTable): sort state, the memoised sortedData,  *)
(* selection callbacks and the three body states of the table; the Demo    *)
(* page's User Management table; ThemeProvider and ThemeToggle; the        *)
(* password toggle and the clear button of InputField.                     *)
(***************************************************************************)
EXTENDS Integers, Sequences, FiniteSets, TLC

(***************************************************************************)
(* Bounds                                                                  *)
(***************************************************************************)
\* longest data prop in the table specification
MaxRows == 2
\* longest selectedRows prop the host supplies
MaxSel == 1
\* longest data prop in the sorting specification
MaxSortRows == 3
\* longest data prop in the selection specification
MaxSelData == 2
\* longest selectedRows prop the host supplies in the selection specification
MaxSelLen == 2
\* most theme-transition timeouts pending at once
MaxTimers == 2
\* longest data prop in the specification of keyless rows
MaxKeylessRows == 2
\* longest data prop in the specification of the cells
MaxCellRows == 2

(***************************************************************************)
(* JavaScript values held in record fields                                 *)
(***************************************************************************)
Null == [t |-> "null", n |-> 0, s |-> ""]
Undefined == [t |-> "undefined", n |-> 0, s |-> ""]
Num(k) == [t |-> "number", n |-> k, s |-> ""]
Str(x) == [t |-> "string", n |-> 0, s |-> x]

\* `x == null` in JavaScript: true of null and of undefined
IsNullish(x) == x.t \in {"null", "undefined"}

\* a[column.dataIndex]: a field the record does not carry reads undefined
Field(record, dataIndex) ==
    IF dataIndex \in DOMAIN record THEN record[dataIndex] ELSE Undefined

\* the strings of the Demo page's users, each column in collation order
DemoStrings == << "2024-01-10", "2024-01-14", "2024-01-15", "2024-01-16",
                  "active", "inactive",
                  "Admin", "Moderator", "User",
                  "Alice Brown", "Bob Johnson", "Jane Smith", "John Doe",
                  "alice.brown@example.com", "bob.johnson@example.com",
                  "jane.smith@example.com", "john.doe@example.com" >>

\* String.prototype.localeCompare: "ana" collates before "Bob" (and "bob")
CollationRank(x) == CASE x = "ana" -> 1
                      [] x = "bob" -> 2
                      [] x = "Bob" -> 3
                      [] \E k \in 1..Len(DemoStrings) : DemoStrings[k] = x ->
                            3 + (CHOOSE k \in 1..Len(DemoStrings) : DemoStrings[k] = x)
                      [] OTHER -> 0
LocaleCompare(x, y) == IF CollationRank(x) < CollationRank(y) THEN -1
                       ELSE IF CollationRank(x) > CollationRank(y) THEN 1
                       ELSE 0

\* aValue < bValue on two non-nullish values that are not both strings: the
\* operands are converted to numbers; the strings of the model convert to NaN,
\* and every comparison with NaN is false
JsLess(a, b) == a.t = "number" /\ b.t = "number" /\ a.n < b.n

\* fault variant of the comparator: null and undefined sort after a value
ComparatorNullsLast(a, b, dataIndex, order) ==
    LET aValue == Field(a, dataIndex)
        bValue == Field(b, dataIndex)
        comparison == IF IsNullish(aValue) THEN 1
                      ELSE IF IsNullish(bValue) THEN -1
                      ELSE IF aValue.t = "string" /\ bValue.t = "string"
                           THEN LocaleCompare(aValue.s, bValue.s)
                      ELSE IF JsLess(aValue, bValue) THEN -1 ELSE 1
    IN  IF aValue = bValue THEN 0
        ELSE IF order = "asc" THEN comparison ELSE 0 - comparison
\* the comparator handed to Array.prototype.sort in sortedData
Comparator(a, b, dataIndex, order) ==
    LET aValue == Field(a, dataIndex)
        bValue == Field(b, dataIndex)
        comparison == IF IsNullish(aValue) THEN -1
                      ELSE IF IsNullish(bValue) THEN 1
                      ELSE IF aValue.t = "string" /\ bValue.t = "string"
                           THEN LocaleCompare(aValue.s, bValue.s)
                      ELSE IF JsLess(aValue, bValue) THEN -1 ELSE 1
    IN  IF aValue = bValue THEN 0
        ELSE IF order = "asc" THEN comparison ELSE 0 - comparison

(***************************************************************************)
(* Array.prototype.sort.  With a comparator that is not a consistent       *)
(* ordering the result is implementation-defined, so the engine is part of *)
(* the state: "timsort" is V8 (run detection and binary insertion for      *)
(* arrays shorter than 32), "mergesort" is SpiderMonkey (insertion sort on *)
(* chunks of three, then bottom-up merging).                               *)
(***************************************************************************)
Engines == {"timsort", "mergesort"}

Reverse(a) == [i \in 1..Len(a) |-> a[Len(a) + 1 - i]]

InsertAt(a, pos, x) == SubSeq(a, 1, pos - 1) \o <<x>> \o SubSeq(a, pos, Len(a))

RECURSIVE RunEnd(_, _, _, _, _)
\* last index of the run that starts at a[1]; i is the next index to look at
RunEnd(a, i, descending, dataIndex, order) ==
    IF i > Len(a) THEN Len(a)
    ELSE LET o == Comparator(a[i], a[i - 1], dataIndex, order)
         IN  IF (descending /\ o >= 0) \/ (~descending /\ o < 0) THEN i - 1
             ELSE RunEnd(a, i + 1, descending, dataIndex, order)

RECURSIVE BinarySearch(_, _, _, _, _, _)
\* insertion point of pivot in the sorted prefix a[left .. right-1]
BinarySearch(a, pivot, left, right, dataIndex, order) ==
    IF left >= right THEN left
    ELSE LET mid == left + ((right - left) \div 2)
         IN  IF Comparator(pivot, a[mid], dataIndex, order) < 0
             THEN BinarySearch(a, pivot, left, mid, dataIndex, order)
             ELSE BinarySearch(a, pivot, mid + 1, right, dataIndex, order)

RECURSIVE BinaryInsertionSort(_, _, _, _)
\* a[1 .. start-1] is sorted; insert a[start], a[start+1], ... in turn
BinaryInsertionSort(a, start, dataIndex, order) ==
    IF start > Len(a) THEN a
    ELSE LET pos == BinarySearch(a, a[start], 1, start, dataIndex, order)
             moved == InsertAt(SubSeq(a, 1, start - 1), pos, a[start])
                        \o SubSeq(a, start + 1, Len(a))
         IN  BinaryInsertionSort(moved, start + 1, dataIndex, order)

TimSort(a, dataIndex, order) ==
    IF Len(a) < 2 THEN a
    ELSE LET descending == Comparator(a[2], a[1], dataIndex, order) < 0
             runEnd == RunEnd(a, 3, descending, dataIndex, order)
             run == SubSeq(a, 1, runEnd)
             made == (IF descending THEN Reverse(run) ELSE run)
                        \o SubSeq(a, runEnd + 1, Len(a))
         IN  BinaryInsertionSort(made, runEnd + 1, dataIndex, order)

RECURSIVE SinkLeft(_, _, _, _)
\* swap a[j] leftwards while its left neighbour compares greater
SinkLeft(a, j, dataIndex, order) ==
    IF j <= 1 THEN a
    ELSE IF Comparator(a[j - 1], a[j], dataIndex, order) <= 0 THEN a
    ELSE SinkLeft([a EXCEPT ![j - 1] = a[j], ![j] = a[j - 1]], j - 1,
                  dataIndex, order)

RECURSIVE InsertionSort(_, _, _, _)
InsertionSort(a, i, dataIndex, order) ==
    IF i > Len(a) THEN a
    ELSE InsertionSort(SinkLeft(a, i, dataIndex, order), i + 1, dataIndex, order)

RECURSIVE MergeRuns(_, _, _, _)
\* merge two sorted runs, taking from x while its head is lessOrEqual
MergeRuns(x, y, dataIndex, order) ==
    IF Len(x) = 0 THEN y
    ELSE IF Len(y) = 0 THEN x
    ELSE IF Comparator(x[1], y[1], dataIndex, order) <= 0
         THEN <<x[1]>> \o MergeRuns(Tail(x), y, dataIndex, order)
         ELSE <<y[1]>> \o MergeRuns(x, Tail(y), dataIndex, order)

MergeArrayRuns(x, y, dataIndex, order) ==
    IF Comparator(x[Len(x)], y[1], dataIndex, order) <= 0 THEN x \o y
    ELSE MergeRuns(x, y, dataIndex, order)

InsSortLimit == 3

RECURSIVE SortChunks(_, _, _)
\* insertion sort on each chunk of InsSortLimit elements
SortChunks(a, dataIndex, order) ==
    IF Len(a) <= InsSortLimit THEN InsertionSort(a, 2, dataIndex, order)
    ELSE InsertionSort(SubSeq(a, 1, InsSortLimit), 2, dataIndex, order)
           \o SortChunks(SubSeq(a, InsSortLimit + 1, Len(a)), dataIndex, order)

RECURSIVE MergePass(_, _, _, _)
\* one pass: merge neighbouring runs of length run
MergePass(a, run, dataIndex, order) ==
    IF Len(a) <= run THEN a
    ELSE LET hi == IF 2 * run < Len(a) THEN 2 * run ELSE Len(a)
         IN  MergeArrayRuns(SubSeq(a, 1, run), SubSeq(a, run + 1, hi),
                            dataIndex, order)
               \o MergePass(SubSeq(a, hi + 1, Len(a)), run, dataIndex, order)

RECURSIVE MergePasses(_, _, _, _)
MergePasses(a, run, dataIndex, order) ==
    IF run >= Len(a) THEN a
    ELSE MergePasses(MergePass(a, run, dataIndex, order), 2 * run,
                     dataIndex, order)

MergeSort(a, dataIndex, order) ==
    IF Len(a) <= 1 THEN a
    ELSE MergePasses(SortChunks(a, dataIndex, order), InsSortLimit,
                     dataIndex, order)

\* [...data].sort(comparator) on the given engine
ArraySort(a, dataIndex, order, eng) ==
    IF eng = "timsort" THEN TimSort(a, dataIndex, order)
    ELSE MergeSort(a, dataIndex, order)

(***************************************************************************)
(* DataTable: props, state and the observers of its callbacks              *)
(***************************************************************************)
VARIABLES
    engine,        \* the runtime's Array.prototype.sort
    data,          \* contents of the array passed as the data prop
    supplied,      \* the data prop as the host last supplied it
    columns,       \* columns prop
    loading,       \* loading prop
    selectedRows,  \* selectedRows prop
    onRowSelect,   \* "absent", or how the host treats the emitted selection
    sortState,     \* useState<SortState>
    last,          \* the last event and the callbacks it invoked
    clickRun,      \* consecutive clicks on one header that began non-active
    selectedUsers, \* the Demo page's useState<User[]>
    theme,         \* ThemeProvider: useState<Theme>
    isDark,        \* ThemeProvider: useState(false)
    systemDark,    \* matchMedia('(prefers-color-scheme: dark)').matches
    storage,       \* localStorage item 'theme'
    storageThrows, \* localStorage access throws
    rootClasses,   \* document.documentElement.classList
    timers,        \* pending timeouts that remove theme-transition
    themeLast,     \* the last event of the theme provider
    listenerTheme, \* the theme the registered handleChange closes over
    inputType,     \* InputField: type prop
    showPasswordToggle, \* InputField: showPasswordToggle prop
    disabled,      \* InputField: disabled prop
    clearable,     \* InputField: clearable prop
    value,         \* InputField: value prop
    showPassword,  \* InputField: useState(false)
    internalType,  \* InputField: useState(type)
    inputLast      \* the last event of the input field

themeVars == <<theme, isDark, systemDark, storage, storageThrows, rootClasses,
               timers, themeLast, listenerTheme>>

inputVars == <<inputType, showPasswordToggle, disabled, clearable, value,
               showPassword, internalType, inputLast>>

tableVars == <<engine, data, supplied, columns, loading, selectedRows,
               onRowSelect, sortState, last, clickRun, selectedUsers>>

vars == <<tableVars, themeVars, inputVars>>

\* SortState.key === null
NullKey == "null"
\* SortOrder null
NullOrder == "null"

InitialSortState == [key |-> NullKey, order |-> NullOrder]

\* column.sortable as a condition: false and absent are both falsy
Sortable(column) == column.sortable = "true"

NameColumn == [key |-> "name", dataIndex |-> "name", sortable |-> "true"]
IdColumn == [key |-> "id", dataIndex |-> "id", sortable |-> "true"]
ActionsColumn == [key |-> "actions", dataIndex |-> "id", sortable |-> "undefined"]
FixedNameColumn == [key |-> "name", dataIndex |-> "name", sortable |-> "false"]

\* the columns props the host supplies
ColumnChoices == { <<NameColumn, IdColumn, ActionsColumn>>,
                   <<FixedNameColumn>> }

RowBob == [id |-> Num(1), name |-> Str("Bob")]
RowAna == [id |-> Num(2), name |-> Str("ana")]
RowNull == [id |-> Num(3), name |-> Null]
TableRows == {RowBob, RowAna, RowNull}

SeqsUpTo(S, n) == UNION {[1..k -> S] : k \in 0..n}
IsInjective(f) == \A i, j \in DOMAIN f : f[i] = f[j] => i = j

\* the data props the host supplies: records with distinct row keys
DataChoices == {d \in SeqsUpTo(TableRows, MaxRows) : IsInjective(d)}
\* the selectedRows props the host supplies: no record twice
SelectionChoices == {sel \in SeqsUpTo(TableRows, MaxSel) : IsInjective(sel)}

\* values of the sorted column in the sorting specification
SortValues == {Null, Undefined, Num(1), Num(2), Str("ana"), Str("Bob")}
\* data props of the sorting specification: the i-th record has id i
SortDataChoices ==
    UNION { { [i \in 1..k |-> [id |-> Num(i), name |-> v[i]]] :
                v \in [1..k -> SortValues] } : k \in 0..MaxSortRows }

\* fault variant: record[rowKey] without the fallback to the index
getRowKeyNoFallback(record, index) == record.id
\* getRowKey: rowKey is the default field name 'id'
getRowKey(record, index) ==
    IF IsNullish(record.id) THEN Num(index) ELSE record.id

RECURSIVE FindColumn(_, _, _)
\* columns.find(col => col.key === key): index of the first match, 0 if none
FindColumn(cols, key, i) ==
    IF i > Len(cols) THEN 0
    ELSE IF cols[i].key = key THEN i
    ELSE FindColumn(cols, key, i + 1)

\* fault variant: d.sort(...) without the copy
SortedInPlace(d, dataIndex, order, eng) == ArraySort(d, dataIndex, order, eng)
\* [...d].sort(...): the copy is sorted, the array d itself is left as it is
SpreadSource(d, dataIndex, order, eng) == d

\* the useMemo body: the sequence the table displays
sortedDataOf(d, cols, ss, eng) ==
    IF ss.key = NullKey \/ ss.key = "" \/ ss.order = NullOrder THEN d
    ELSE LET c == FindColumn(cols, ss.key, 1)
         IN  IF c = 0 THEN d
             ELSE LET copy == d
                  IN  ArraySort(copy, cols[c].dataIndex, ss.order, eng)

\* the array behind the data prop after the useMemo body ran
dataAfterMemo(d, cols, ss, eng) ==
    IF ss.key = NullKey \/ ss.key = "" \/ ss.order = NullOrder THEN d
    ELSE LET c == FindColumn(cols, ss.key, 1)
         IN  IF c = 0 THEN d
             ELSE SpreadSource(d, cols[c].dataIndex, ss.order, eng)

sortedData == sortedDataOf(data, columns, sortState, engine)

\* fault variant: the key is kept when the order reaches none
CycleKeepsKey(prev, column) ==
    IF prev.key = column.key
    THEN LET nextOrder == IF prev.order = "asc" THEN "desc"
                          ELSE IF prev.order = "desc" THEN NullOrder
                          ELSE "asc"
         IN  [key |-> column.key, order |-> nextOrder]
    ELSE [key |-> column.key, order |-> "asc"]
\* fault variant: descending goes back to ascending
CycleTwoWay(prev, column) ==
    IF prev.key = column.key
    THEN [key |-> column.key,
          order |-> IF prev.order = "asc" THEN "desc" ELSE "asc"]
    ELSE [key |-> column.key, order |-> "asc"]
\* fault variant: another column takes over the order of the active one
CycleCarriesOrder(prev, column) ==
    IF prev.key = column.key
    THEN LET nextOrder == IF prev.order = "asc" THEN "desc"
                          ELSE IF prev.order = "desc" THEN NullOrder
                          ELSE "asc"
         IN  [key |-> IF nextOrder # NullOrder THEN column.key ELSE NullKey,
              order |-> nextOrder]
    ELSE [key |-> column.key,
          order |-> IF prev.order = NullOrder THEN "asc" ELSE prev.order]
\* the functional updater passed to setSortState
SortUpdater(prev, column) ==
    IF prev.key = column.key
    THEN LET nextOrder == IF prev.order = "asc" THEN "desc"
                          ELSE IF prev.order = "desc" THEN NullOrder
                          ELSE "asc"
         IN  [key |-> IF nextOrder # NullOrder THEN column.key ELSE NullKey,
              order |-> nextOrder]
    ELSE [key |-> column.key, order |-> "asc"]

\* fault variant: no check of column.sortable
handleSortUnguarded(prev, column) == SortUpdater(prev, column)
\* handleSort: the sort state after a click on the header of column
handleSort(prev, column) ==
    IF ~Sortable(column) THEN prev ELSE SortUpdater(prev, column)

\* isRowSelected
isRowSelected(record, selected) ==
    \E i \in 1..Len(selected) : getRowKey(selected[i], 0) = getRowKey(record, 0)

\* isAllSelected, isIndeterminate
isAllSelected(d, selected) == Len(d) > 0 /\ Len(selected) = Len(d)
isIndeterminate(d, selected) == Len(selected) > 0 /\ Len(selected) < Len(d)

\* fault variant: the filter keeps the entries under the key
FilterOutInverted(selected, recordKey) ==
    SelectSeq(selected, LAMBDA row : getRowKey(row, 0) = recordKey)
\* selectedRows.filter(row => getRowKey(row, 0) !== recordKey)
FilterOut(selected, recordKey) ==
    SelectSeq(selected, LAMBDA row : getRowKey(row, 0) # recordKey)

(***************************************************************************)
(* The table body                                                          *)
(***************************************************************************)
NoRecord == [id |-> Undefined, name |-> Undefined]

\* the default values of the props loadingText and emptyText
loadingText == "Loading..."
emptyText == "No data available"

\* LoadingSkeleton: declared by the component, rendered nowhere
SkeletonRows == 3
LoadingSkeleton ==
    [i \in 1..SkeletonRows |-> [kind |-> "skeleton", record |-> NoRecord, text |-> ""]]

\* fault variant: the skeleton rows in place of the loading row
BodySkeleton(isLoading, rows) ==
    IF isLoading THEN LoadingSkeleton
    ELSE IF Len(rows) = 0
         THEN <<[kind |-> "empty", record |-> NoRecord, text |-> emptyText]>>
    ELSE [i \in 1..Len(rows) |-> [kind |-> "row", record |-> rows[i], text |-> ""]]
\* fault variant: the empty row takes priority over the loading row
BodyEmptyFirst(isLoading, rows) ==
    IF Len(rows) = 0
    THEN <<[kind |-> "empty", record |-> NoRecord, text |-> emptyText]>>
    ELSE IF isLoading
         THEN <<[kind |-> "loading", record |-> NoRecord, text |-> loadingText]>>
    ELSE [i \in 1..Len(rows) |-> [kind |-> "row", record |-> rows[i], text |-> ""]]
\* <tbody>: the loading row, the empty row, or one row per sorted record
BodyOf(isLoading, rows) ==
    IF isLoading
    THEN <<[kind |-> "loading", record |-> NoRecord, text |-> loadingText]>>
    ELSE IF Len(rows) = 0
         THEN <<[kind |-> "empty", record |-> NoRecord, text |-> emptyText]>>
    ELSE [i \in 1..Len(rows) |-> [kind |-> "row", record |-> rows[i], text |-> ""]]

Body == BodyOf(loading, sortedData)

\* the records shown in the body, in display order
DisplayedRecords ==
    LET rows == SelectSeq(Body, LAMBDA r : r.kind = "row")
    IN  [i \in 1..Len(rows) |-> rows[i].record]

\* key={getRowKey(record, index)} of the displayed rows
RowKeys == [i \in 1..Len(sortedData) |-> getRowKey(sortedData[i], i - 1)]

\* column.render is defined
HasRender(column) == "render" \in DOMAIN column

\* String(v)
JsString(v) == CASE v.t = "string" -> v.s
                 [] v.t = "number" -> ToString(v.n)
                 [] v.t = "null" -> "null"
                 [] OTHER -> "undefined"

\* fault variant: String(record[column.dataIndex]) without the `?? ''`
CellOfRaw(column, record, index) ==
    LET v == Field(record, column.dataIndex)
    IN  IF HasRender(column)
        THEN [rendered |-> TRUE, text |-> "", by |-> column.render,
              args |-> <<v, record, index>>]
        ELSE [rendered |-> FALSE, text |-> JsString(v), by |-> "", args |-> <<>>]
\* the content of a <td>: the result of column.render, kept as the call that
\* produced it, or String(record[column.dataIndex] ?? '')
CellOf(column, record, index) ==
    LET v == Field(record, column.dataIndex)
    IN  IF HasRender(column)
        THEN [rendered |-> TRUE, text |-> "", by |-> column.render,
              args |-> <<v, record, index>>]
        ELSE [rendered |-> FALSE,
              text |-> JsString(IF IsNullish(v) THEN Str("") ELSE v),
              by |-> "", args |-> <<>>]

\* the cells of the displayed rows
Cells ==
    IF loading THEN <<>>
    ELSE [i \in 1..Len(sortedData) |->
            [c \in 1..Len(columns) |-> CellOf(columns[c], sortedData[i], i - 1)]]

(***************************************************************************)
(* Events.  Every event ends with a render, which runs the useMemo body.   *)
(***************************************************************************)
NoRun == [col |-> "", n |-> 0]

\* an event that runs no selection handler
Event(ev, col, calls) ==
    [ev |-> ev, col |-> col, before |-> sortState, calls |-> calls,
     row |-> <<>>, checked |-> FALSE, sel |-> <<>>, selAfter |-> <<>>,
     afterCheck |-> FALSE, selBefore |-> <<>>]

\* an event on a checkbox or a row: the record of the row, e.target.checked,
\* and the array behind selectedRows as the handler found it and left it;
\* afterCheck tells that the event before it checked the checkbox of the same
\* row, and selBefore is the selectedRows that event found
SelectionEvent(ev, row, checked, selAfter, calls) ==
    LET afterCheck == /\ ev = "rowCheckbox"
                      /\ last.ev = "rowCheckbox"
                      /\ last.checked
                      /\ last.row = row
    IN  [ev |-> ev, col |-> "", before |-> sortState, calls |-> calls,
         row |-> row, checked |-> checked, sel |-> selectedRows,
         selAfter |-> selAfter, afterCheck |-> afterCheck,
         selBefore |-> IF afterCheck THEN last.sel ELSE <<>>]

\* a callback invocation: its array or record argument, its index argument,
\* and which array the argument is ("new" for one built by the handler)
Call(fn, rows, index, ref) ==
    [fn |-> fn, rows |-> rows, index |-> index, ref |-> ref]

\* the arguments of the onRowSelect invocations among calls
Emitted(calls) == SelectSeq(calls, LAMBDA c : c.fn = "onRowSelect")

\* the array behind the data prop once the render after an event is over
Rendered(d, cols, ss) == dataAfterMemo(d, cols, ss, engine)

\* what the host does with an emitted selection
FedBack(selected, calls) ==
    IF onRowSelect = "controlled" /\ Emitted(calls) # <<>>
    THEN Emitted(calls)[1].rows
    ELSE selected

\* the Demo page: onRowSelect={setSelectedUsers}
setSelectedUsers(users, calls) ==
    IF onRowSelect = "setSelectedUsers" /\ Emitted(calls) # <<>>
    THEN Emitted(calls)[1].rows
    ELSE users

\* the Demo page passes no onRowClick; the other hosts pass one
HasOnRowClick == onRowSelect # "setSelectedUsers"

\* <th onClick={() => handleSort(column)}> of the c-th column
HeaderClick(c) ==
    /\ c \in 1..Len(columns)
    /\ LET column == columns[c]
           nextState == handleSort(sortState, column)
       IN  /\ sortState' = nextState
           /\ data' = Rendered(data, columns, nextState)
           /\ last' = Event("headerClick", column.key, <<>>)
           /\ clickRun' = IF ~Sortable(column) THEN NoRun
                          ELSE IF clickRun.col = column.key /\ clickRun.n \in {1, 2}
                               THEN [col |-> column.key, n |-> clickRun.n + 1]
                          ELSE IF sortState.key # column.key
                               THEN [col |-> column.key, n |-> 1]
                          ELSE NoRun
    /\ UNCHANGED <<inputVars, themeVars, selectedUsers, engine, supplied, columns, loading, selectedRows, onRowSelect>>

\* fault variant: a new data prop resets the sort state
SetDataResetsSort(d) ==
    /\ d \in DataChoices
    /\ supplied' = d
    /\ sortState' = InitialSortState
    /\ data' = Rendered(d, columns, InitialSortState)
    /\ last' = Event("setData", "", <<>>)
    /\ clickRun' = NoRun
    /\ UNCHANGED <<inputVars, themeVars, selectedUsers, engine, columns, loading, selectedRows, onRowSelect>>
\* the host renders the table with another data prop
SetData(d) ==
    /\ d \in DataChoices
    /\ supplied' = d
    /\ data' = Rendered(d, columns, sortState)
    /\ last' = Event("setData", "", <<>>)
    /\ clickRun' = NoRun
    /\ UNCHANGED <<inputVars, themeVars, selectedUsers, engine, columns, loading, selectedRows, onRowSelect, sortState>>

\* the host renders the table with another columns prop
SetColumns(cols) ==
    /\ cols \in ColumnChoices
    /\ columns' = cols
    /\ data' = Rendered(data, cols, sortState)
    /\ last' = Event("setColumns", "", <<>>)
    /\ clickRun' = NoRun
    /\ UNCHANGED <<inputVars, themeVars, selectedUsers, engine, supplied, loading, selectedRows, onRowSelect, sortState>>

\* the host renders the table with another loading prop
SetLoading(b) ==
    /\ b \in BOOLEAN
    /\ loading' = b
    /\ data' = Rendered(data, columns, sortState)
    /\ last' = Event("setLoading", "", <<>>)
    /\ clickRun' = NoRun
    /\ UNCHANGED <<inputVars, themeVars, selectedUsers, engine, supplied, columns, selectedRows, onRowSelect, sortState>>

\* the host renders the table with another selectedRows prop
SetSelectedRows(sel) ==
    /\ selectedRows' = sel
    /\ data' = Rendered(data, columns, sortState)
    /\ last' = Event("setSelectedRows", "", <<>>)
    /\ clickRun' = NoRun
    /\ UNCHANGED <<inputVars, themeVars, selectedUsers, engine, supplied, columns, loading, onRowSelect, sortState>>

\* which of the events React dispatches for a click on a row checkbox are
\* stopped at the checkbox: onChange calls e.stopPropagation() on the change
\* event; the input has no onClick, so the click event goes on to the row
StoppedAtCheckbox(eventType) == eventType = "change"

\* the callbacks the <tr> invokes for an event that reaches it
RowHandlers(eventType, record, index) ==
    IF eventType = "click" /\ HasOnRowClick
    THEN <<Call("onRowClick", <<record>>, index, "")>>
    ELSE <<>>

\* fault variant: the clicked record is put in front
newSelectedRowsPrepend(selected, record, checked) ==
    IF checked THEN <<record>> \o selected
    ELSE FilterOut(selected, getRowKey(record, 0))
\* fault variant: unchecking removes the first entry under the key only
newSelectedRowsFirstOnly(selected, record, checked) ==
    IF checked THEN selected \o <<record>>
    ELSE LET hits == {k \in 1..Len(selected) :
                         getRowKey(selected[k], 0) = getRowKey(record, 0)}
         IN  IF hits = {} THEN selected
             ELSE LET h == CHOOSE k \in hits : \A m \in hits : k <= m
                  IN  SubSeq(selected, 1, h - 1) \o
                      SubSeq(selected, h + 1, Len(selected))
\* handleRowSelect: the sequence handed to onRowSelect
newSelectedRows(selected, record, checked) ==
    IF checked THEN selected \o <<record>>
    ELSE FilterOut(selected, getRowKey(record, 0))

\* fault variant: selectedRows.push(record) in place of the spread
selectedRowsPushed(selected, record, checked) ==
    IF checked THEN selected \o <<record>> ELSE selected
\* the array behind selectedRows once handleRowSelect returned: the spread
\* and filter build new arrays
selectedRowsAfter(selected, record, checked) == selected

\* fault variant: the displayed order is emitted
selectAllDisplayed(d, checked) ==
    IF checked THEN sortedDataOf(d, columns, sortState, engine) ELSE <<>>
\* handleSelectAll: the sequence handed to onRowSelect
selectAllRows(d, checked) == IF checked THEN d ELSE <<>>

\* a click on the checkbox of the i-th displayed row: React dispatches the
\* click event, which reaches the row's onClick, and then the change event,
\* whose onChange runs handleRowSelect with the negation of the checked state
\* the checkbox was rendered with
RowCheckboxClick(i) ==
    /\ ~loading
    /\ i \in 1..Len(sortedData)
    /\ LET record == sortedData[i]
           checked == ~isRowSelected(record, selectedRows)
           calls == (IF StoppedAtCheckbox("click") THEN <<>>
                     ELSE RowHandlers("click", record, i - 1)) \o
                    (IF onRowSelect = "absent" THEN <<>>
                     ELSE <<Call("onRowSelect",
                                 newSelectedRows(selectedRows, record, checked),
                                 0, "new")>>) \o
                    (IF StoppedAtCheckbox("change") THEN <<>>
                     ELSE RowHandlers("change", record, i - 1))
           selAfter == selectedRowsAfter(selectedRows, record, checked)
       IN  /\ last' = SelectionEvent("rowCheckbox", <<record>>, checked,
                                     selAfter, calls)
           /\ selectedRows' = FedBack(selAfter, calls)
           /\ selectedUsers' = setSelectedUsers(selectedUsers, calls)
    /\ data' = Rendered(data, columns, sortState)
    /\ clickRun' = NoRun
    /\ UNCHANGED <<inputVars, themeVars, engine, supplied, columns, loading, onRowSelect, sortState>>

\* a click on the header checkbox: onChange runs handleSelectAll with the
\* negation of isAllSelected
SelectAllClick ==
    /\ LET checked == ~isAllSelected(data, selectedRows)
           calls == IF onRowSelect = "absent" THEN <<>>
                    ELSE <<Call("onRowSelect", selectAllRows(data, checked),
                                0, "new")>>
       IN  /\ last' = SelectionEvent("selectAll", <<>>, checked,
                                     selectedRows, calls)
           /\ selectedRows' = FedBack(selectedRows, calls)
           /\ selectedUsers' = setSelectedUsers(selectedUsers, calls)
    /\ data' = Rendered(data, columns, sortState)
    /\ clickRun' = NoRun
    /\ UNCHANGED <<inputVars, themeVars, engine, supplied, columns, loading, onRowSelect, sortState>>

\* a click on the i-th displayed row outside its checkbox
RowClick(i) ==
    /\ ~loading
    /\ i \in 1..Len(sortedData)
    /\ last' = SelectionEvent("rowClick", <<sortedData[i]>>, FALSE, selectedRows,
                              RowHandlers("click", sortedData[i], i - 1))
    /\ data' = Rendered(data, columns, sortState)
    /\ clickRun' = NoRun
    /\ UNCHANGED <<inputVars, themeVars, selectedUsers, engine, supplied, columns, loading,
                   selectedRows, onRowSelect, sortState>>

(***************************************************************************)
(* ThemeProvider and the quick toggle of ThemeToggle                       *)
(***************************************************************************)
Themes == {"light", "dark", "system"}

\* localStorage.getItem('theme') === null
NoItem == "null"
\* what the item 'theme' holds when the page loads
StorageChoices == {NoItem, "light", "dark", "system", "blue"}

\* fault variant: any saved value is taken as the theme
initialThemeUnchecked(item, throws) ==
    IF throws THEN "system"
    ELSE IF item # NoItem THEN item
    ELSE "system"
\* the initialiser of useState<Theme>
initialTheme(item, throws) ==
    IF throws THEN "system"
    ELSE IF item # NoItem /\ item \in Themes THEN item
    ELSE "system"

\* applyTheme: isDarkMode
isDarkMode(newTheme, sys) == newTheme = "dark" \/ (newTheme = "system" /\ sys)

\* applyTheme: the classes of the root element
classesAfterApply(classes, dark) ==
    (IF dark THEN classes \cup {"dark", "theme-dark"}
     ELSE classes \ {"dark", "theme-dark"}) \cup {"theme-transition"}

\* toggleTheme: the theme it hands to setTheme
toggledTheme(current) == IF current = "light" THEN "dark" ELSE "light"

\* fault variant: the theme is not written to localStorage
setThemeToUnsaved(t, ev) ==
    /\ timers + (IF t # theme THEN 2 ELSE 1) <= MaxTimers
    /\ theme' = t
    /\ storage' = storage
    /\ isDark' = isDarkMode(t, systemDark)
    /\ rootClasses' = classesAfterApply(rootClasses, isDarkMode(t, systemDark))
    /\ timers' = timers + (IF t # theme THEN 2 ELSE 1)
    /\ listenerTheme' = IF t # theme THEN t ELSE listenerTheme
    /\ themeLast' = ev
    /\ UNCHANGED <<inputVars, tableVars, systemDark, storageThrows>>
\* fault variant: the effect has no dependencies, so the listener registered
\* on mount stays and the theme is applied by setTheme alone
setThemeToStaleListener(t, ev) ==
    /\ timers + 1 <= MaxTimers
    /\ theme' = t
    /\ storage' = IF storageThrows THEN storage ELSE t
    /\ isDark' = isDarkMode(t, systemDark)
    /\ rootClasses' = classesAfterApply(rootClasses, isDarkMode(t, systemDark))
    /\ timers' = timers + 1
    /\ listenerTheme' = listenerTheme
    /\ themeLast' = ev
    /\ UNCHANGED <<inputVars, tableVars, systemDark, storageThrows>>
\* fault variant: localStorage.setItem comes first and is not guarded, so a
\* storage failure ends the handler before anything is updated
setThemeToSaveFirst(t, ev) ==
    IF storageThrows
    THEN /\ themeLast' = ev
         /\ UNCHANGED <<inputVars, tableVars, theme, isDark, systemDark, storage,
                        storageThrows, rootClasses, timers, listenerTheme>>
    ELSE /\ timers + (IF t # theme THEN 2 ELSE 1) <= MaxTimers
         /\ theme' = t
         /\ storage' = t
         /\ isDark' = isDarkMode(t, systemDark)
         /\ rootClasses' = classesAfterApply(rootClasses, isDarkMode(t, systemDark))
         /\ timers' = timers + (IF t # theme THEN 2 ELSE 1)
         /\ listenerTheme' = IF t # theme THEN t ELSE listenerTheme
         /\ themeLast' = ev
         /\ UNCHANGED <<inputVars, tableVars, systemDark, storageThrows>>
\* setTheme(t), followed by the render and, when the theme changed, the
\* effect that applies the theme once more and registers a handleChange
\* that closes over the new theme
setThemeTo(t, ev) ==
    /\ timers + (IF t # theme THEN 2 ELSE 1) <= MaxTimers
    /\ theme' = t
    /\ storage' = IF storageThrows THEN storage ELSE t
    /\ isDark' = isDarkMode(t, systemDark)
    /\ rootClasses' = classesAfterApply(rootClasses, isDarkMode(t, systemDark))
    /\ timers' = timers + (IF t # theme THEN 2 ELSE 1)
    /\ listenerTheme' = IF t # theme THEN t ELSE listenerTheme
    /\ themeLast' = ev
    /\ UNCHANGED <<inputVars, tableVars, systemDark, storageThrows>>

\* a click on one of the buttons Light, Dark, Auto: handleThemeChange
setTheme(t) == setThemeTo(t, "setTheme")

\* a click on the quick toggle button: onClick={toggleTheme}
toggleTheme == setThemeTo(toggledTheme(theme), "toggleTheme")

\* fault variant: no listener for the media query
systemThemeChangeIgnored ==
    /\ systemDark' = ~systemDark
    /\ themeLast' = "systemChange"
    /\ UNCHANGED <<inputVars, tableVars, theme, isDark, rootClasses, timers,
                   storage, storageThrows, listenerTheme>>
\* the operating system's colour scheme changes: the registered handleChange
\* runs with the theme it closes over
systemThemeChange ==
    /\ listenerTheme = "system" => timers < MaxTimers
    /\ systemDark' = ~systemDark
    /\ IF listenerTheme = "system"
       THEN /\ isDark' = isDarkMode("system", ~systemDark)
            /\ rootClasses' = classesAfterApply(rootClasses,
                                                isDarkMode("system", ~systemDark))
            /\ timers' = timers + 1
       ELSE UNCHANGED <<isDark, rootClasses, timers>>
    /\ themeLast' = "systemChange"
    /\ UNCHANGED <<inputVars, tableVars, theme, storage, storageThrows, listenerTheme>>

\* a timeout set by applyTheme fires
transitionTimeout ==
    /\ timers > 0
    /\ timers' = timers - 1
    /\ rootClasses' = rootClasses \ {"theme-transition"}
    /\ themeLast' = "timeout"
    /\ UNCHANGED <<inputVars, tableVars, theme, isDark, systemDark, storage,
                   storageThrows, listenerTheme>>

\* the page is loaded again: a new provider mounts over the same localStorage
\* and a new document; the timeouts of the old page are gone
reload ==
    /\ theme' = initialTheme(storage, storageThrows)
    /\ isDark' = isDarkMode(initialTheme(storage, storageThrows), systemDark)
    /\ rootClasses' = classesAfterApply({},
            isDarkMode(initialTheme(storage, storageThrows), systemDark))
    /\ timers' = 1
    /\ listenerTheme' = initialTheme(storage, storageThrows)
    /\ themeLast' = "reload"
    /\ UNCHANGED <<inputVars, tableVars, systemDark, storage, storageThrows>>

\* the provider after its first render and its effect
ThemeInit ==
    /\ storage \in StorageChoices
    /\ storageThrows \in BOOLEAN
    /\ systemDark \in BOOLEAN
    /\ theme = initialTheme(storage, storageThrows)
    /\ isDark = isDarkMode(theme, systemDark)
    /\ rootClasses = classesAfterApply({}, isDark)
    /\ timers = 1
    /\ themeLast = "mount"
    /\ listenerTheme = theme

\* the theme provider at rest, in the specifications of the table
ThemeIdle ==
    /\ storage = NoItem
    /\ storageThrows = FALSE
    /\ systemDark = FALSE
    /\ theme = "system"
    /\ isDark = FALSE
    /\ rootClasses = {}
    /\ timers = 0
    /\ themeLast = "mount"
    /\ listenerTheme = "system"

(***************************************************************************)
(* InputField: the password toggle and the clear button                    *)
(***************************************************************************)
\* the type props of the model
InputTypes == {"text", "password", "email"}
\* the value props of the model
InputValues == {"", "secret"}

\* fault variant: the effect leaves showPassword out
internalTypeShown(type, toggle, show) == type
\* the effect on [type, showPassword, showPasswordToggle]: the value it
\* hands to setInternalType
internalTypeOf(type, toggle, show) ==
    IF type = "password" /\ toggle
    THEN (IF show THEN "text" ELSE "password")
    ELSE type

\* the password toggle button is rendered
PasswordToggleShown == showPasswordToggle /\ inputType = "password" /\ ~disabled

\* the clear button is rendered
ClearShown == clearable /\ value # "" /\ ~disabled

\* a click on the password toggle button, the render and the effect
handlePasswordToggle ==
    /\ PasswordToggleShown
    /\ showPassword' = ~showPassword
    /\ internalType' = internalTypeOf(inputType, showPasswordToggle, ~showPassword)
    /\ inputLast' = "passwordToggle"
    /\ UNCHANGED <<tableVars, themeVars, inputType, showPasswordToggle, disabled,
                   clearable, value>>

\* a click on the clear button: onClear, or onChange with the empty value,
\* and the host renders the input with the empty value
handleClear ==
    /\ ClearShown
    /\ value' = ""
    /\ internalType' = internalTypeOf(inputType, showPasswordToggle, showPassword)
    /\ inputLast' = "clear"
    /\ UNCHANGED <<tableVars, themeVars, inputType, showPasswordToggle, disabled,
                   clearable, showPassword>>

\* the host renders the input with other props; the effect runs
RenderInput(type, toggle, dis, clr, v) ==
    /\ inputType' = type
    /\ showPasswordToggle' = toggle
    /\ disabled' = dis
    /\ clearable' = clr
    /\ value' = v
    /\ internalType' = internalTypeOf(type, toggle, showPassword)
    /\ inputLast' = "render"
    /\ UNCHANGED <<tableVars, themeVars, showPassword>>

\* the input after its first render and its effect
InputInit ==
    /\ inputType \in InputTypes
    /\ showPasswordToggle \in BOOLEAN
    /\ disabled \in BOOLEAN
    /\ clearable \in BOOLEAN
    /\ value \in InputValues
    /\ showPassword = FALSE
    /\ internalType = internalTypeOf(inputType, showPasswordToggle, FALSE)
    /\ inputLast = "mount"

\* the input at rest, in the specifications of the table and of the theme
InputIdle ==
    /\ inputType = "text"
    /\ showPasswordToggle = FALSE
    /\ disabled = FALSE
    /\ clearable = FALSE
    /\ value = ""
    /\ showPassword = FALSE
    /\ internalType = "text"
    /\ inputLast = "mount"

(***************************************************************************)
(* Specifications                                                          *)
(***************************************************************************)
InitCommon ==
    /\ engine \in Engines
    /\ sortState = InitialSortState
    /\ last = [ev |-> "mount", col |-> "", before |-> InitialSortState,
               calls |-> <<>>, row |-> <<>>, checked |-> FALSE, sel |-> <<>>,
               selAfter |-> <<>>, afterCheck |-> FALSE, selBefore |-> <<>>]
    /\ clickRun = NoRun
    /\ selectedUsers = <<>>

\* the table at rest, in the specification of the theme provider
TableIdle ==
    /\ engine = "timsort"
    /\ supplied = <<>>
    /\ data = <<>>
    /\ columns = <<NameColumn>>
    /\ loading = FALSE
    /\ selectedRows = <<>>
    /\ onRowSelect = "absent"
    /\ sortState = InitialSortState
    /\ last = [ev |-> "mount", col |-> "", before |-> InitialSortState,
               calls |-> <<>>, row |-> <<>>, checked |-> FALSE, sel |-> <<>>,
               selAfter |-> <<>>, afterCheck |-> FALSE, selBefore |-> <<>>]
    /\ clickRun = NoRun
    /\ selectedUsers = <<>>

\* the table after its first render, for every props the host may pass
Init ==
    /\ InitCommon
    /\ ThemeIdle
    /\ InputIdle
    /\ supplied \in DataChoices
    /\ data = Rendered(supplied, columns, InitialSortState)
    /\ columns \in ColumnChoices
    /\ loading \in BOOLEAN
    /\ selectedRows \in SelectionChoices
    /\ onRowSelect \in {"absent", "controlled", "uncontrolled"}

Next ==
    \/ \E c \in 1..Len(columns) : HeaderClick(c)
    \/ \E d \in DataChoices : SetData(d)
    \/ \E cols \in ColumnChoices : SetColumns(cols)
    \/ \E b \in BOOLEAN : SetLoading(b)
    \/ \E sel \in SelectionChoices : SetSelectedRows(sel)
    \/ \E i \in 1..Len(sortedData) : RowCheckboxClick(i)
    \/ SelectAllClick
    \/ \E i \in 1..Len(sortedData) : RowClick(i)

Spec == Init /\ [][Next]_vars

\* the sorting specification: one table with three columns, any column values,
\* and header clicks only
SortInit ==
    /\ InitCommon
    /\ ThemeIdle
    /\ InputIdle
    /\ supplied \in SortDataChoices
    /\ data = supplied
    /\ columns = <<NameColumn, IdColumn, ActionsColumn>>
    /\ loading = FALSE
    /\ selectedRows = <<>>
    /\ onRowSelect = "absent"

SortNext == \E c \in 1..Len(columns) : HeaderClick(c)

SortSpec == SortInit /\ [][SortNext]_vars

\* records of the selection specification: two records with keys of their
\* own, and a second record under the key of the first
RowBobCopy == [id |-> Num(1), name |-> Str("bob")]
SelRows == {RowBob, RowAna, RowBobCopy}

\* data props of the selection specification: no record twice
SelDataChoices == {d \in SeqsUpTo(SelRows, MaxSelData) : IsInjective(d)}
\* selectedRows props of the selection specification: any sequence of records
SelSelectionChoices == SeqsUpTo(SelRows, MaxSelLen)

\* the selection specification: a selectable table with one sortable column,
\* rendered with any selectedRows and changed by clicks only
SelInit ==
    /\ InitCommon
    /\ ThemeIdle
    /\ InputIdle
    /\ supplied \in SelDataChoices
    /\ data = supplied
    /\ columns = <<NameColumn>>
    /\ loading = FALSE
    /\ selectedRows \in SelSelectionChoices
    /\ onRowSelect \in {"absent", "controlled", "uncontrolled"}

SelNext ==
    \/ \E c \in 1..Len(columns) : HeaderClick(c)
    \/ \E i \in 1..Len(sortedData) : RowCheckboxClick(i)
    \/ SelectAllClick
    \/ \E i \in 1..Len(sortedData) : RowClick(i)

SelSpec == SelInit /\ [][SelNext]_vars

\* records of the specification of keyless rows: two records without an id
\* and one with an id
RowAnonA == [id |-> Undefined, name |-> Str("ana")]
RowAnonB == [id |-> Null, name |-> Str("bob")]
KeylessRows == {RowAnonA, RowAnonB, RowBob}
KeylessDataChoices ==
    {d \in SeqsUpTo(KeylessRows, MaxKeylessRows) : IsInjective(d)}

\* the specification of keyless rows: a selectable table whose host passes
\* the emitted selection back
KeylessInit ==
    /\ InitCommon
    /\ ThemeIdle
    /\ InputIdle
    /\ supplied \in KeylessDataChoices
    /\ data = supplied
    /\ columns = <<NameColumn>>
    /\ loading = FALSE
    /\ selectedRows = <<>>
    /\ onRowSelect = "controlled"

KeylessNext ==
    \/ \E c \in 1..Len(columns) : HeaderClick(c)
    \/ \E i \in 1..Len(sortedData) : RowCheckboxClick(i)
    \/ SelectAllClick

KeylessSpec == KeylessInit /\ [][KeylessNext]_vars

\* a column with a renderer
BadgeColumn == [key |-> "badge", dataIndex |-> "name", sortable |-> "true",
                render |-> "badge"]

\* data props of the specification of the cells: the i-th record has id i
CellDataChoices ==
    UNION { { [i \in 1..k |-> [id |-> Num(i), name |-> v[i]]] :
                v \in [1..k -> SortValues] } : k \in 0..MaxCellRows }

\* the specification of the cells: a column without a renderer and a column
\* with one, over any column values
CellInit ==
    /\ InitCommon
    /\ ThemeIdle
    /\ InputIdle
    /\ supplied \in CellDataChoices
    /\ data = supplied
    /\ columns = <<NameColumn, BadgeColumn, IdColumn>>
    /\ loading = FALSE
    /\ selectedRows = <<>>
    /\ onRowSelect = "absent"

CellNext == \E c \in 1..Len(columns) : HeaderClick(c)

CellSpec == CellInit /\ [][CellNext]_vars

\* the Demo page's users and the columns of its User Management table
DemoUser(id, name, email, role, status, lastLogin) ==
    [id |-> Str(id), name |-> Str(name), email |-> Str(email),
     role |-> Str(role), status |-> Str(status), lastLogin |-> Str(lastLogin)]

demoUsers ==
    << DemoUser("1", "John Doe", "john.doe@example.com", "Admin", "active",
                "2024-01-15"),
       DemoUser("2", "Jane Smith", "jane.smith@example.com", "User", "active",
                "2024-01-14"),
       DemoUser("3", "Bob Johnson", "bob.johnson@example.com", "Moderator",
                "inactive", "2024-01-10"),
       DemoUser("4", "Alice Brown", "alice.brown@example.com", "User", "active",
                "2024-01-16") >>

DemoColumn(key) == [key |-> key, dataIndex |-> key, sortable |-> "true"]

userColumns == << DemoColumn("name"), DemoColumn("email"), DemoColumn("role"),
                  DemoColumn("status"), DemoColumn("lastLogin") >>

\* the Demo page: <DataTable data={demoUsers} columns={userColumns} selectable
\* onRowSelect={setSelectedUsers} />; selectedRows is not passed and keeps
\* its default []
DemoInit ==
    /\ InitCommon
    /\ ThemeIdle
    /\ InputIdle
    /\ supplied = demoUsers
    /\ data = supplied
    /\ columns = userColumns
    /\ loading = FALSE
    /\ selectedRows = <<>>
    /\ onRowSelect = "setSelectedUsers"

DemoNext ==
    \/ \E c \in 1..Len(columns) : HeaderClick(c)
    \/ \E i \in 1..Len(sortedData) : RowCheckboxClick(i)
    \/ SelectAllClick
    \/ \E i \in 1..Len(sortedData) : RowClick(i)

DemoSpec == DemoInit /\ [][DemoNext]_vars

\* the theme provider with the quick toggle and the three labelled buttons
ThemeSpecInit ==
    /\ TableIdle
    /\ InputIdle
    /\ ThemeInit

ThemeNext ==
    \/ toggleTheme
    \/ \E t \in Themes : setTheme(t)
    \/ systemThemeChange
    \/ transitionTimeout
    \/ reload

ThemeSpec == ThemeSpecInit /\ [][ThemeNext]_vars

\* the input field under every props, with its two buttons
InputSpecInit ==
    /\ TableIdle
    /\ ThemeIdle
    /\ InputInit

InputNext ==
    \/ handlePasswordToggle
    \/ handleClear
    \/ \E type \in InputTypes, toggle \in BOOLEAN, dis \in BOOLEAN,
          clr \in BOOLEAN, v \in InputValues :
            RenderInput(type, toggle, dis, clr, v)

InputSpec == InputSpecInit /\ [][InputNext]_vars

(***************************************************************************)
(* Sort state                                                              *)
(***************************************************************************)
ActiveClick(c) ==
    /\ last'.ev = "headerClick"
    /\ Sortable(columns[c])
    /\ sortState.key = columns[c].key
    /\ HeaderClick(c)

\* C1: a click on the header of the active sortable column takes the order
\* from ascending to descending and from descending to none, and at none the
\* sort state is {key: null, order: null}
C1_ActiveColumnCycles ==
    [][\A c \in 1..Len(columns) : ActiveClick(c) =>
          /\ sortState.order = "asc" =>
                sortState' = [key |-> columns[c].key, order |-> "desc"]
          /\ sortState.order = "desc" => sortState' = InitialSortState]_vars

C1_Witness ==
    /\ last.ev = "headerClick"
    /\ last.before = [key |-> last.col, order |-> "desc"]
    /\ sortState = InitialSortState

\* the columns whose sort icon is shown active
ActiveColumns ==
    {c \in 1..Len(columns) :
        sortState.key = columns[c].key /\ sortState.order # NullOrder}

\* C2: in every reachable state the key of the sort state is null exactly
\* when its order is null, and at most one column is active
C2_KeyNullIffOrderNull ==
    /\ (sortState.key = NullKey) <=> (sortState.order = NullOrder)
    /\ Cardinality(ActiveColumns) <= 1

C2_Witness ==
    /\ last.ev = "setColumns"
    /\ sortState.order = "desc"
    /\ FindColumn(columns, sortState.key, 1) = 0

\* C3: a click on the header of a sortable column that is not the active one
\* makes it the active column in ascending order, whatever the sort state was
C3_OtherColumnStartsAscending ==
    [][\A c \in 1..Len(columns) :
          (/\ last'.ev = "headerClick"
           /\ Sortable(columns[c])
           /\ sortState.key # columns[c].key
           /\ HeaderClick(c))
          => sortState' = [key |-> columns[c].key, order |-> "asc"]]_vars

C3_Witness ==
    /\ last.ev = "headerClick"
    /\ last.before.order = "desc"
    /\ last.before.key # last.col
    /\ sortState = [key |-> last.col, order |-> "asc"]

\* C4: a click on the header of a column whose sortable flag is false or
\* absent changes neither the sort state nor the displayed row order
C4_UnsortableClickChangesNothing ==
    [][\A c \in 1..Len(columns) :
          (last'.ev = "headerClick" /\ ~Sortable(columns[c]) /\ HeaderClick(c)) =>
          /\ sortState' = sortState
          /\ sortedDataOf(data', columns', sortState', engine') = sortedData
          /\ BodyOf(loading', sortedDataOf(data', columns', sortState', engine'))
                = Body]_vars

C4_Witness ==
    /\ last.ev = "headerClick"
    /\ \E c \in 1..Len(columns) : columns[c].key = last.col /\ ~Sortable(columns[c])
    /\ sortState.order = "desc"
    /\ sortedData # data

\* C5: three clicks in a row on the header of a sortable column that was not
\* active before the first of them show the records in the order of the data
\* prop again
C5_ThreeClicksRestoreOrder ==
    clickRun.n = 3 =>
        /\ sortedData = supplied
        /\ DisplayedRecords = supplied

C5_Witness ==
    /\ clickRun.n = 3
    /\ Len(supplied) >= 2
    /\ sortedDataOf(supplied, columns, [key |-> clickRun.col, order |-> "asc"],
                    engine) # supplied

(***************************************************************************)
(* Sorting                                                                 *)
(***************************************************************************)
SortActive ==
    /\ sortState.key # NullKey
    /\ sortState.order # NullOrder
    /\ FindColumn(columns, sortState.key, 1) # 0

ActiveValue(record) ==
    Field(record, columns[FindColumn(columns, sortState.key, 1)].dataIndex)

\* what the table displays when the active column is sorted in the given order
SortedInOrder(order) ==
    sortedDataOf(data, columns, [key |-> sortState.key, order |-> order], engine)

PairwiseDistinct ==
    \A i, j \in 1..Len(data) :
        ActiveValue(data[i]) = ActiveValue(data[j]) => i = j

\* C6: for non-empty data and a sortable column whose values are pairwise
\* distinct, the order displayed when sorting descending is the reverse of
\* the order displayed when sorting ascending
C6_DescendingIsReverseOfAscending ==
    (SortActive /\ sortState.order = "desc" /\ Len(data) > 0 /\ PairwiseDistinct)
    => sortedData = Reverse(SortedInOrder("asc"))

\* C7: while the table is sorted by a column, every record whose value in
\* that column is null (null or undefined, the comparator's `== null`) is
\* displayed before every record with a value when the order is ascending,
\* and after every such record when the order is descending
C7_NullsFirstAscendingLastDescending ==
    SortActive =>
        \A i, j \in 1..Len(sortedData) :
            (IsNullish(ActiveValue(sortedData[i])) /\ ~IsNullish(ActiveValue(sortedData[j])))
            => IF sortState.order = "asc" THEN i < j ELSE i > j

C7_Witness ==
    /\ SortActive
    /\ last.ev = "headerClick"
    /\ sortState.order = "desc"
    /\ \E i, j \in 1..Len(supplied) :
          /\ i < j
          /\ IsNullish(ActiveValue(supplied[i]))
          /\ ~IsNullish(ActiveValue(supplied[j]))

\* C8: the array passed as data holds the same records in the same order as
\* when the host supplied it, after any sequence of events and renders
C8_DataPropNotMutated == data = supplied

C8_Witness ==
    /\ last.ev = "headerClick"
    /\ SortActive
    /\ sortedData # supplied

\* C9: the sort state changes only in a click on the header of a sortable
\* column; prop changes, checkbox changes and row clicks leave it as it is
C9_OnlySortableClickChangesSortState ==
    [][/\ sortState' # sortState =>
             \E c \in 1..Len(columns) : Sortable(columns[c]) /\ HeaderClick(c)
       /\ last'.ev \in {"setData", "setColumns", "setLoading", "setSelectedRows",
                        "rowCheckbox", "selectAll", "rowClick"}
             => sortState' = sortState]_vars

C9_Witness ==
    /\ last.ev = "setData"
    /\ sortState.order = "desc"
    /\ last.before = sortState
    /\ sortedData # supplied

(***************************************************************************)
(* Body states                                                             *)
(***************************************************************************)
\* C10 as stated: while loading with non-empty data the body is exactly the
\* three skeleton rows and shows no record
C10_ThreeSkeletonRows ==
    (loading /\ Len(data) > 0) =>
        /\ Body = LoadingSkeleton
        /\ DisplayedRecords = <<>>

\* C10: while loading with non-empty data the body is exactly one row, the
\* loading row with the spinner and loadingText, and shows no record
C10_OneLoadingRow ==
    (loading /\ Len(data) > 0) =>
        /\ Len(Body) = 1
        /\ Body[1].kind = "loading"
        /\ DisplayedRecords = <<>>

C10_Witness ==
    /\ loading
    /\ Len(data) >= 2
    /\ SortActive

\* C11: the body is the loading row whenever loading is set; otherwise, when
\* there is no record to display, it is the one row with emptyText and no
\* data row; otherwise it is one data row for each record of the data prop
C11_BodyInOneOfThreeStates ==
    /\ loading => (Len(Body) = 1 /\ Body[1].kind = "loading")
    /\ (~loading /\ Len(supplied) = 0) =>
          /\ Len(Body) = 1
          /\ Body[1].kind = "empty"
          /\ Body[1].text = emptyText
          /\ DisplayedRecords = <<>>
    /\ (~loading /\ Len(supplied) > 0) =>
          /\ Len(Body) = Len(supplied)
          /\ \A i \in 1..Len(Body) : Body[i].kind = "row"
          /\ {DisplayedRecords[i] : i \in 1..Len(DisplayedRecords)}
                = {supplied[i] : i \in 1..Len(supplied)}

C11_Witness ==
    /\ last.ev = "setLoading"
    /\ ~loading
    /\ Len(supplied) = 0
    /\ sortState.order = "desc"
    /\ Body[1].kind = "empty"

(***************************************************************************)
(* Selection                                                               *)
(***************************************************************************)
\* the sequence the last event handed to onRowSelect
Payload == Emitted(last.calls)[1].rows

\* C12: checking the checkbox of an unchecked row hands onRowSelect the
\* previous selectedRows followed by the record of that row: the record is
\* last, and nothing else is added, removed or moved
C12_CheckAppendsRecord ==
    (last.ev = "rowCheckbox" /\ last.checked /\ onRowSelect # "absent") =>
        /\ Len(Emitted(last.calls)) = 1
        /\ Payload = last.sel \o last.row

C12_Witness ==
    /\ last.ev = "rowCheckbox"
    /\ last.checked
    /\ onRowSelect = "controlled"
    /\ Len(selectedRows) = 2
    /\ Len(supplied) = 2
    /\ selectedRows = <<supplied[2], supplied[1]>>
    /\ sortedData = supplied

\* C13: unchecking the checkbox of a row hands onRowSelect the previous
\* selectedRows without the entries whose key equals the key of the row's
\* record, all of them, and with the other entries in their order
C13_UncheckRemovesEveryEntryUnderKey ==
    (last.ev = "rowCheckbox" /\ ~last.checked /\ onRowSelect # "absent") =>
        LET key == getRowKey(last.row[1], 0)
        IN  /\ Len(Emitted(last.calls)) = 1
            /\ Payload = SelectSeq(last.sel, LAMBDA r : getRowKey(r, 0) # key)
            /\ \A k \in 1..Len(Payload) : getRowKey(Payload[k], 0) # key

C13_Witness ==
    /\ last.ev = "rowCheckbox"
    /\ ~last.checked
    /\ onRowSelect # "absent"
    /\ Len(last.sel) >= Len(Payload) + 2
    /\ Len(Payload) >= 1

\* C14: checking the header checkbox hands onRowSelect the records of the
\* data prop in the order of the data prop, whatever was selected and however
\* the table is sorted; unchecking it hands onRowSelect the empty sequence
C14_SelectAllEmitsDataInDataOrder ==
    (last.ev = "selectAll" /\ onRowSelect # "absent") =>
        /\ Len(Emitted(last.calls)) = 1
        /\ Payload = IF last.checked THEN supplied ELSE <<>>

C14_Witness ==
    /\ last.ev = "selectAll"
    /\ last.checked
    /\ onRowSelect # "absent"
    /\ last.sel # <<>>
    /\ Len(supplied) >= 2
    /\ sortedData # supplied
    /\ Payload = supplied

\* the keys of the rows of d are pairwise different
UniqueKeys(d) ==
    \A i, j \in 1..Len(d) :
        getRowKey(d[i], i - 1) = getRowKey(d[j], j - 1) => i = j

\* C15: with a host that passes every emitted selection back as selectedRows
\* and data whose row keys are unique, checking the checkbox of an unselected
\* row and then unchecking it leaves selectedRows as it was before the check
C15_CheckThenUncheckRestoresSelection ==
    (/\ last.ev = "rowCheckbox"
     /\ last.afterCheck
     /\ onRowSelect = "controlled"
     /\ UniqueKeys(supplied)) =>
        /\ ~last.checked
        /\ selectedRows = last.selBefore

C15_Witness ==
    /\ last.ev = "rowCheckbox"
    /\ last.afterCheck
    /\ onRowSelect = "controlled"
    /\ UniqueKeys(supplied)
    /\ Len(selectedRows) >= 2
    /\ sortedData # supplied

\* C16 as stated, for data whose row keys are unique: the header checkbox is
\* checked exactly when data is not empty and selectedRows is as long as
\* data, and indeterminate exactly when some but not all rows of data are
\* selected, whatever records selectedRows holds
C16_HeaderCheckboxReflectsSelection ==
    UniqueKeys(data) =>
        /\ isAllSelected(data, selectedRows)
              <=> (Len(data) > 0 /\ Len(selectedRows) = Len(data))
        /\ isIndeterminate(data, selectedRows)
              <=> (/\ \E i \in 1..Len(data) : isRowSelected(data[i], selectedRows)
                   /\ \E i \in 1..Len(data) : ~isRowSelected(data[i], selectedRows))

\* C17 as stated: a click on a row's checkbox invokes onRowSelect and never
\* onRowClick; a click on the row outside the checkbox invokes onRowClick only
C17_CheckboxClickNeverRowClick ==
    /\ last.ev = "rowCheckbox" =>
          /\ \A k \in 1..Len(last.calls) : last.calls[k].fn # "onRowClick"
          /\ onRowSelect # "absent" => Len(Emitted(last.calls)) = 1
    /\ last.ev = "rowClick" =>
          \A k \in 1..Len(last.calls) : last.calls[k].fn = "onRowClick"

\* C18: a row check, a row uncheck, a select-all and a deselect-all leave the
\* array behind selectedRows and the array behind data as the host supplied
\* them, and hand onRowSelect an array the handler built
C18_SelectedRowsPropNotMutated ==
    last.ev \in {"rowCheckbox", "selectAll"} =>
        /\ last.selAfter = last.sel
        /\ data = supplied
        /\ \A k \in 1..Len(last.calls) :
              last.calls[k].fn = "onRowSelect" => last.calls[k].ref = "new"

C18_Witness ==
    /\ last.ev = "rowCheckbox"
    /\ last.checked
    /\ onRowSelect = "uncontrolled"
    /\ Len(last.sel) >= 1
    /\ selectedRows = last.sel
    /\ Len(Payload) = Len(last.sel) + 1

(***************************************************************************)
(* The Demo page                                                           *)
(***************************************************************************)
\* C19 as stated: in the User Management table, after the checkbox of one
\* row and then the checkbox of another row were checked, selectedUsers holds
\* the records of both rows and both checkboxes are displayed checked
C19_DemoKeepsBothCheckedRows ==
    [][\A i \in 1..Len(sortedData) :
          (/\ last'.ev = "rowCheckbox"
           /\ last.ev = "rowCheckbox"
           /\ last.checked
           /\ last.row # <<sortedData[i]>>
           /\ RowCheckboxClick(i))
          => \A r \in {last.row[1], sortedData[i]} :
                /\ \E k \in 1..Len(selectedUsers') : selectedUsers'[k] = r
                /\ isRowSelected(r, selectedRows')]_vars

(***************************************************************************)
(* Theme                                                                   *)
(***************************************************************************)
\* C20 as stated: a click on the quick toggle turns dark mode on when it is
\* off and off when it is on, whatever the theme and the system preference
C20_QuickToggleFlipsIsDark == [][toggleTheme => isDark' = ~isDark]_vars

\* C21: while localStorage works, after every setTheme and every toggleTheme
\* the item 'theme' of localStorage is the theme of the provider
C21_ThemePersisted ==
    (~storageThrows /\ themeLast \in {"setTheme", "toggleTheme"}) =>
        storage = theme

C21_Witness ==
    /\ themeLast = "toggleTheme"
    /\ ~storageThrows
    /\ theme = "light"
    /\ storage = "light"
    /\ systemDark

\* C22: after a mount the theme is the saved item when that is 'light',
\* 'dark' or 'system', and 'system', following the system preference, when
\* nothing or anything else is saved; a theme set in one session is the
\* theme the next session starts with
C22_MountLoadsSavedTheme ==
    /\ [](themeLast \in {"mount", "reload"} =>
            /\ theme = IF ~storageThrows /\ storage \in {"light", "dark", "system"}
                        THEN storage ELSE "system"
            /\ theme = "system" => isDark = systemDark)
    /\ [][(/\ ~storageThrows
           /\ themeLast \in {"setTheme", "toggleTheme"}
           /\ themeLast' = "reload") => theme' = theme]_vars

C22_Witness ==
    /\ themeLast = "reload"
    /\ ~storageThrows
    /\ theme = "dark"
    /\ storage = "dark"
    /\ ~systemDark
    /\ isDark

\* C23: when the system preference changes while the theme is 'system',
\* isDark and the root's dark class become the new preference; while the
\* theme is 'light' or 'dark', isDark and the root's classes stay as they
\* are; the theme meant is the current one, after any setTheme
C23_SystemChangeFollowsCurrentTheme ==
    [][themeLast' = "systemChange" =>
          IF theme = "system"
          THEN /\ isDark' = systemDark'
               /\ ("dark" \in rootClasses') <=> systemDark'
          ELSE /\ isDark' = isDark
               /\ rootClasses' = rootClasses]_vars

C23_Witness ==
    /\ themeLast = "systemChange"
    /\ storageThrows
    /\ theme = "dark"
    /\ isDark
    /\ ~systemDark

\* C26: in every state isDark is (theme = 'dark') or (theme = 'system' and
\* the system prefers dark), and the root carries the classes dark and
\* theme-dark exactly when isDark
C26_IsDarkMatchesTheme ==
    /\ isDark <=> (theme = "dark" \/ (theme = "system" /\ systemDark))
    /\ ("dark" \in rootClasses) <=> isDark
    /\ ("theme-dark" \in rootClasses) <=> isDark

C26_Witness ==
    /\ themeLast = "systemChange"
    /\ theme = "system"
    /\ storage = "system"
    /\ systemDark
    /\ isDark
    /\ "dark" \in rootClasses

\* C28: when localStorage throws, the theme after a mount is 'system', and
\* setTheme and toggleTheme still set the theme, isDark and the root classes
\* to the requested theme
C28_StorageFailureKeepsTheming ==
    /\ []((storageThrows /\ themeLast \in {"mount", "reload"}) => theme = "system")
    /\ [][/\ \A t \in Themes : (storageThrows /\ setTheme(t)) =>
                /\ theme' = t
                /\ isDark' = (t = "dark" \/ (t = "system" /\ systemDark))
                /\ ("dark" \in rootClasses') <=> isDark'
          /\ (storageThrows /\ toggleTheme) =>
                /\ theme' = toggledTheme(theme)
                /\ isDark' = (theme' = "dark")
                /\ ("dark" \in rootClasses') <=> isDark']_vars

C28_Witness ==
    /\ storageThrows
    /\ themeLast = "toggleTheme"
    /\ storage = "dark"
    /\ theme = "light"
    /\ ~isDark
    /\ "dark" \notin rootClasses

\* C29 as stated: while a timeout of applyTheme is pending the root carries
\* the class theme-transition, and once no timeout is pending it does not
C29_TransitionClassUntilLastTimer ==
    ("theme-transition" \in rootClasses) <=> (timers > 0)

(***************************************************************************)
(* Cells and row keys                                                      *)
(***************************************************************************)
\* C24: the cell of a column with a renderer is the renderer's result for
\* the field value, the record and the displayed row index; the cell of a
\* column without one is the string form of the field value, and the empty
\* string for null and undefined
C24_CellRendering ==
    \A i \in 1..Len(sortedData), c \in 1..Len(columns) :
        LET v == Field(sortedData[i], columns[c].dataIndex)
            cell == Cells[i][c]
        IN  IF HasRender(columns[c])
            THEN /\ cell.rendered
                 /\ cell.by = columns[c].render
                 /\ cell.args = <<v, sortedData[i], i - 1>>
            ELSE /\ ~cell.rendered
                 /\ IsNullish(v) => cell.text = ""
                 /\ v.t = "string" => cell.text = v.s
                 /\ v.t = "number" => cell.text = ToString(v.n)
                 /\ cell.text \notin {"null", "undefined"}

C24_Witness ==
    /\ last.ev = "headerClick"
    /\ sortedData # supplied
    /\ \E i \in 1..Len(sortedData) :
          /\ sortedData[i].name = Null
          /\ supplied[i] # sortedData[i]
          /\ Cells[i][1].text = ""
          /\ Cells[i][2].rendered
          /\ Cells[i][3].text = ToString(sortedData[i].id.n)

Keyless(record) == IsNullish(record.id)

\* C25: the records without an id share the key 0 in the membership tests:
\* once one of them is in selectedRows every row without an id is displayed
\* selected, and unchecking one of them emits a selection without any of
\* them; the key of a displayed row without an id is its index
C25_KeylessRowsShareKey ==
    /\ (\E k \in 1..Len(selectedRows) : Keyless(selectedRows[k])) =>
          \A i \in 1..Len(sortedData) :
              Keyless(sortedData[i]) => isRowSelected(sortedData[i], selectedRows)
    /\ (/\ last.ev = "rowCheckbox"
        /\ ~last.checked
        /\ Keyless(last.row[1])
        /\ onRowSelect # "absent") =>
          \A k \in 1..Len(Payload) : ~Keyless(Payload[k])
    /\ \A i \in 1..Len(sortedData) :
          Keyless(sortedData[i]) => RowKeys[i] = Num(i - 1)

C25_Witness ==
    /\ last.ev = "rowCheckbox"
    /\ ~last.checked
    /\ Keyless(last.row[1])
    /\ \E j, k \in 1..Len(last.sel) :
          /\ last.sel[j] # last.sel[k]
          /\ Keyless(last.sel[j])
          /\ Keyless(last.sel[k])
    /\ \A k \in 1..Len(selectedRows) : ~Keyless(selectedRows[k])
    /\ \E i, j \in 1..Len(sortedData) :
          /\ Keyless(sortedData[i])
          /\ Keyless(sortedData[j])
          /\ RowKeys[i] # RowKeys[j]

\* C27 as stated: the comparator of the sorted column gives opposite signs,
\* or zero both times, for the two orders of any two values of the column
C27_ComparatorAntisymmetric ==
    SortActive =>
        \A i, j \in 1..Len(data) :
            LET dataIndex == columns[FindColumn(columns, sortState.key, 1)].dataIndex
            IN  Comparator(data[i], data[j], dataIndex, sortState.order)
                  = 0 - Comparator(data[j], data[i], dataIndex, sortState.order)

(***************************************************************************)
(* InputField                                                              *)
(***************************************************************************)
\* C30: the type of the rendered input is 'text' when type is 'password',
\* showPasswordToggle is set and showPassword is true, 'password' when
\* showPassword is false, and the type prop otherwise; showPassword starts
\* false, every click on the toggle button flips it, and it changes only by
\* such a click, for which the button must be rendered: the input is not
\* disabled, type is 'password' and showPasswordToggle is set
C30_PasswordToggle ==
    /\ [](IF inputType = "password" /\ showPasswordToggle
           THEN internalType = (IF showPassword THEN "text" ELSE "password")
           ELSE internalType = inputType)
    /\ [](inputLast = "mount" => ~showPassword)
    /\ [][inputLast' = "passwordToggle" => showPassword' = ~showPassword]_vars
    /\ [][showPassword' # showPassword =>
            (/\ inputLast' = "passwordToggle"
             /\ ~disabled
             /\ inputType = "password"
             /\ showPasswordToggle)]_vars

C30_Witness ==
    /\ inputLast = "render"
    /\ inputType = "password"
    /\ showPasswordToggle
    /\ disabled
    /\ showPassword
    /\ internalType = "text"

====
